---- MODULE Spec2Model ----
(***************************************************************************)
(* The Blade pass of cranelift/codegen/src/blade.rs: the flow network over *)
(* the SSA values and sink instructions of a function, its minimum cut,    *)
(* and the fences / speculative-load hardening placed for each cut edge.   *)
(***************************************************************************)
EXTENDS Integers, Sequences, FiniteSets, TLC

\* ------------------------------------------------------------------ bounds

\* instructions in the body of a generated straight-line function
MaxInsts == 2

\* arithmetic instructions between the source and the sink of a chain
MaxChain == 2
PointerBits == 4

\* ----------------------------------------------------------------- helpers

Range(s) == {s[i] : i \in DOMAIN s}

RECURSIVE Flatten(_)
Flatten(ss) == IF ss = <<>> THEN <<>> ELSE Head(ss) \o Flatten(Tail(ss))

\* ---------------------------------------------------------- the IR (input)

\* An opcode, as far as the pass consults it: its name (compared with
\* Opcode::Fill / Opcode::FillNop) and the predicates can_load, can_store,
\* is_branch, is_call, is_indirect_branch. The opcode table itself is not
\* part of blade.rs, so the predicates are independent inputs.
Opcode(n, l, s, b, c, ib) ==
  [name |-> n, can_load |-> l, can_store |-> s, is_branch |-> b,
   is_call |-> c, is_indirect_branch |-> ib]

op_iadd      == Opcode("iadd", FALSE, FALSE, FALSE, FALSE, FALSE)
op_return    == Opcode("return", FALSE, FALSE, FALSE, FALSE, FALSE)
op_load      == Opcode("load", TRUE, FALSE, FALSE, FALSE, FALSE)
op_fill      == Opcode("fill", TRUE, FALSE, FALSE, FALSE, FALSE)
op_store     == Opcode("store", FALSE, TRUE, FALSE, FALSE, FALSE)
op_brnz      == Opcode("brnz", FALSE, FALSE, TRUE, FALSE, FALSE)
op_jump      == Opcode("jump", FALSE, FALSE, TRUE, FALSE, FALSE)
op_ijump     == Opcode("indirect_jump_table_br", FALSE, FALSE, TRUE, FALSE, TRUE)
op_call      == Opcode("call", FALSE, FALSE, FALSE, TRUE, FALSE)
\* an opcode for which both can_load and is_call hold
op_load_call == Opcode("load_call", TRUE, FALSE, FALSE, TRUE, FALSE)
\* the opcodes of the instructions the hardening inserts
op_iadd_imm  == Opcode("iadd_imm", FALSE, FALSE, FALSE, FALSE, FALSE)
op_iconst    == Opcode("iconst", FALSE, FALSE, FALSE, FALSE, FALSE)
op_ifcmp     == Opcode("ifcmp", FALSE, FALSE, FALSE, FALSE, FALSE)
op_selectif  == Opcode("selectif", FALSE, FALSE, FALSE, FALSE, FALSE)
op_isub      == Opcode("isub", FALSE, FALSE, FALSE, FALSE, FALSE)
op_band      == Opcode("band", FALSE, FALSE, FALSE, FALSE, FALSE)

IsFill(op) == op.name \in {"fill", "fill_nop"}

\* InstructionData: opcode, arguments (the first nfixed are the fixed ones,
\* the rest are forwarded to the parameters of block dest), results, and the
\* immediate and condition code of the instructions that have one.
InstData(op, args, nfixed, results, dest) ==
  [op |-> op, args |-> args, nfixed |-> nfixed, results |-> results, dest |-> dest,
   imm |-> 0, cond |-> "none"]

inst_args(f, i) == f.dfg[i].args
inst_results(f, i) == f.dfg[i].results
\* inst_fixed_args returning the forwarded block arguments as well
inst_fixed_args_with_forwarded(f, i) == f.dfg[i].args

inst_fixed_args(f, i) == SubSeq(f.dfg[i].args, 1, f.dfg[i].nfixed)
inst_variable_args(f, i) ==
  SubSeq(f.dfg[i].args, f.dfg[i].nfixed + 1, Len(f.dfg[i].args))

\* A Function: layout[b] the instructions of block b in order, params[b] the
\* parameters of block b, dfg[i] the data of instruction i, num_values the
\* number of values (values are 1..num_values), bounds[v] the Bounds of the
\* values v that carry bounds information, bytes[v] the size of v's type.
Blocks(f) == 1..Len(f.layout)
LayoutInsts(f) == Flatten(f.layout)
Values(f) == 1..f.num_values

ValueDefResult(i, n) == [kind |-> "Result", at |-> i, num |-> n]
ValueDefParam(b, n) == [kind |-> "Param", at |-> b, num |-> n]

\* func.dfg.value_def
value_def(f, v) ==
  IF \E b \in Blocks(f) : \E n \in DOMAIN f.params[b] : f.params[b][n] = v
  THEN LET b == CHOOSE b \in Blocks(f) : v \in Range(f.params[b])
           n == CHOOSE n \in DOMAIN f.params[b] : f.params[b][n] = v
       IN ValueDefParam(b, n)
  ELSE LET i == CHOOSE i \in DOMAIN f.dfg : v \in Range(f.dfg[i].results)
           n == CHOOSE n \in DOMAIN f.dfg[i].results : f.dfg[i].results[n] = v
       IN ValueDefResult(i, n)

\* func.layout.inst_block, first_inst, prev_inst
inst_block(f, i) == CHOOSE b \in Blocks(f) : i \in Range(f.layout[b])
first_inst(f, b) == f.layout[b][1]
PosInBlock(f, i) ==
  LET b == inst_block(f, i)
  IN CHOOSE k \in DOMAIN f.layout[b] : f.layout[b][k] = i
prev_inst(f, i) == f.layout[inst_block(f, i)][PosInBlock(f, i) - 1]

\* cfg.pred_iter(block): the branch instructions that transfer control to b
pred_iter(f, b) == SelectSeq(LayoutInsts(f), LAMBDA i : f.dfg[i].dest = b)

\* ------------------------------------------------- the functions considered

\* An instruction shape: an opcode with its number of arguments and results.
Template(op, nargs, nres) == [op |-> op, nargs |-> nargs, nres |-> nres]

Templates ==
  { Template(op_iadd, 2, 1), Template(op_load, 1, 1), Template(op_load, 1, 2),
    Template(op_fill, 1, 1), Template(op_store, 2, 0), Template(op_brnz, 1, 0),
    Template(op_call, 1, 1), Template(op_load_call, 1, 1) }

\* results nv+1 .. nv+k
FreshValues(nv, k) == [j \in 1..k |-> nv + j]

\* Straight-line bodies of exactly n instructions over one block parameter
\* (value 1): every argument is a value defined earlier. A branch leaves to
\* the exit block (block 2), which has no parameters.
RECURSIVE Bodies(_)
Bodies(n) ==
  IF n = 0 THEN { [insts |-> <<>>, nv |-> 1] }
  ELSE UNION { UNION { { [insts |-> Append(b.insts,
                                     InstData(t.op, args, t.nargs,
                                              FreshValues(b.nv, t.nres),
                                              IF t.op.is_branch THEN 2 ELSE 0)),
                           nv |-> b.nv + t.nres]
                         : args \in [1..t.nargs -> 1..b.nv] }
                       : t \in Templates }
               : b \in Bodies(n - 1) }

NoBounds == [v \in {} |-> [lower |-> 0, upper |-> 0, directly_annotated |-> FALSE]]

\* The function of a body: block 1 holds the body, block 2 a return. With
\* bounded, value 1 carries bounds whose lower and upper values are two
\* further parameters of block 1.
StraightFunc(b, bounded) ==
  LET n == Len(b.insts)
  IN [layout |-> << [k \in 1..n |-> k], <<n + 1>> >>,
      params |-> << IF bounded THEN <<1, b.nv + 1, b.nv + 2>> ELSE <<1>>, <<>> >>,
      dfg |-> [i \in 1..(n + 1) |->
                 IF i <= n THEN b.insts[i]
                 ELSE InstData(op_return, <<>>, 0, <<>>, 0)],
      num_values |-> IF bounded THEN b.nv + 2 ELSE b.nv,
      bounds |-> IF bounded
                 THEN 1 :> [lower |-> b.nv + 1, upper |-> b.nv + 2,
                            directly_annotated |-> TRUE]
                 ELSE NoBounds,
      bytes |-> [v \in 1..(IF bounded THEN b.nv + 2 ELSE b.nv) |-> 8]]

StraightFuncs ==
  { StraightFunc(b, bounded) :
      b \in UNION { Bodies(n) : n \in 1..MaxInsts }, bounded \in BOOLEAN }

\* Chains  v2 = src v1; v3 = iadd_imm v2; ...; sink  of a source instruction,
\* n arithmetic instructions and an instruction that uses the last value:
\* as its only argument, or with v1 as its first or its second argument.
ChainSources == {op_load, op_fill, op_call, op_load_call, op_iadd}
ChainSinks == {op_brnz, op_store, op_call, op_load}

ChainBody(src, n, snk, shape) ==
  [insts |-> <<InstData(src, <<1>>, 1, <<2>>, 0)>>
             \o [k \in 1..n |-> InstData(op_iadd_imm, <<k + 1>>, 1, <<k + 2>>, 0)]
             \o <<InstData(snk,
                           CASE shape = 1 -> <<n + 2>>
                             [] shape = 2 -> <<1, n + 2>>
                             [] OTHER -> <<n + 2, 1>>,
                           IF shape = 1 THEN 1 ELSE 2,
                           IF snk.can_load \/ snk.is_call THEN <<n + 3>> ELSE <<>>,
                           IF snk.is_branch THEN 2 ELSE 0)>>,
   nv |-> IF snk.can_load \/ snk.is_call THEN n + 3 ELSE n + 2]

ChainFuncs ==
  { StraightFunc(ChainBody(src, n, snk, shape), FALSE) :
      src \in ChainSources, n \in 0..MaxChain, snk \in ChainSinks,
      shape \in 1..3 }

\* Loops with a loop-carried block parameter:
\*   block1(v1): v2 = src1 v1; v3 = src2 v1; brnz v1, block2(v2); jump block2(v3)
\*   block2(v4): v5 = body v4, v4; brnz v5, block2(v5); return
\* and, with one entry only,
\*   block1(v1): v2 = src1 v1; jump block2(v2)
\*   block2(v3): v4 = body v3, v3; brnz v4, block2(v4); return
LoopOps == {op_iadd, op_load, op_call}

LoopFunc2(src1, src2, body) ==
  [layout |-> << <<1, 2, 3, 4>>, <<5, 6, 7>> >>,
   params |-> << <<1>>, <<4>> >>,
   dfg |-> << InstData(src1, <<1>>, 1, <<2>>, 0),
              InstData(src2, <<1>>, 1, <<3>>, 0),
              InstData(op_brnz, <<1, 2>>, 1, <<>>, 2),
              InstData(op_jump, <<3>>, 0, <<>>, 2),
              InstData(body, <<4, 4>>, 2, <<5>>, 0),
              InstData(op_brnz, <<5, 5>>, 1, <<>>, 2),
              InstData(op_return, <<>>, 0, <<>>, 0) >>,
   num_values |-> 5,
   bounds |-> NoBounds,
   bytes |-> [v \in 1..5 |-> 8]]

LoopFunc1(src1, body) ==
  [layout |-> << <<1, 2>>, <<3, 4, 5>> >>,
   params |-> << <<1>>, <<3>> >>,
   dfg |-> << InstData(src1, <<1>>, 1, <<2>>, 0),
              InstData(op_jump, <<2>>, 0, <<>>, 2),
              InstData(body, <<3, 3>>, 2, <<4>>, 0),
              InstData(op_brnz, <<4, 4>>, 1, <<>>, 2),
              InstData(op_return, <<>>, 0, <<>>, 0) >>,
   num_values |-> 4,
   bounds |-> NoBounds,
   bytes |-> [v \in 1..4 |-> 8]]

LoopFuncs ==
  { LoopFunc1(s, b) : s \in LoopOps, b \in LoopOps }
  \cup { LoopFunc2(s1, s2, b) : s1 \in LoopOps, s2 \in LoopOps, b \in LoopOps }

Funcs == StraightFuncs \cup ChainFuncs \cup LoopFuncs

\* ------------------------------------------------------------ DefUseGraph

ValueUseInst(i) == [kind |-> "Inst", id |-> i]
ValueUseValue(v) == [kind |-> "Value", id |-> v]

\* the uses that block b contributes to map[val]: Inst(inst) once for each
\* argument position of inst holding val, then Value(param) for every
\* incoming branch whose forwarded argument for param is val
BlockUsesOf(f, b, val) ==
  Flatten([k \in DOMAIN f.layout[b] |->
             LET i == f.layout[b][k]
             IN [j \in 1..Len(SelectSeq(inst_args(f, i), LAMBDA a : a = val))
                   |-> ValueUseInst(i)]])
  \o Flatten([k \in DOMAIN pred_iter(f, b) |->
                LET branch_args == inst_variable_args(f, pred_iter(f, b)[k])
                    block_params == f.params[b]
                    hits == SelectSeq([j \in DOMAIN block_params |-> j],
                                      LAMBDA j : branch_args[j] = val)
                IN [j \in DOMAIN hits |-> ValueUseValue(block_params[hits[j]])]])

\* DefUseGraph::for_function, then uses_of_val
uses_of_val(f, val) == Flatten([b \in Blocks(f) |-> BlockUsesOf(f, b, val)])

\* ------------------------------------------------------ BladeGraphBuilder

BladeNodeValueDef(v) == [kind |-> "ValueDef", id |-> v]
BladeNodeSink(i) == [kind |-> "Sink", id |-> i]

\* HashMap::insert: an existing key's value is replaced
MapInsert(m, k, v) == [x \in DOMAIN m \cup {k} |-> IF x = k THEN v ELSE m[x]]

\* A builder / graph: nodes 1..num_nodes, edges in the order they were
\* added (parallel edges are distinct entries), the two terminal nodes and
\* the two maps.
with_nodes_for_func(f) ==
  [num_nodes |-> 2 + f.num_values,
   edges |-> <<>>,
   source_node |-> 1,
   sink_node |-> 2,
   node_to_bladenode_map |-> [n \in 3..(2 + f.num_values) |-> BladeNodeValueDef(n - 2)],
   bladenode_to_node_map |->
     [b \in {BladeNodeValueDef(v) : v \in Values(f)} |-> b.id + 2]]

add_edge(bld, from, to) == [bld EXCEPT !.edges = Append(@, <<from, to>>)]

mark_as_source(bld, src) ==
  add_edge(bld, bld.source_node, bld.bladenode_to_node_map[BladeNodeValueDef(src)])

add_edge_from_node_to_value(bld, from, to) ==
  add_edge(bld, from, bld.bladenode_to_node_map[BladeNodeValueDef(to)])

add_edge_from_value_to_node(bld, from, to) ==
  add_edge(bld, bld.bladenode_to_node_map[BladeNodeValueDef(from)], to)

\* the builder after add_sink_node_for_inst(inst); the new node is num_nodes
add_sink_node_for_inst(bld, inst) ==
  LET inst_sink_node == bld.num_nodes + 1
  IN add_edge(
       [bld EXCEPT !.num_nodes = inst_sink_node,
                   !.node_to_bladenode_map =
                      MapInsert(@, inst_sink_node, BladeNodeSink(inst)),
                   !.bladenode_to_node_map =
                      MapInsert(@, BladeNodeSink(inst), inst_sink_node)],
       inst_sink_node, bld.sink_node)

\* The loops over the builder. The builder is mutated in place, so a step
\* acts on the finished builder of the step before it: each loop inspects the
\* builder it was handed (it always holds the source and the sink node, so
\* the test num_nodes < 2 never ends a loop) before it goes on, which has TLC
\* evaluate the steps one after the other instead of nesting them.
RECURSIVE mark_all_as_source(_, _)
mark_all_as_source(bld, results) ==
  IF results = <<>> \/ bld.num_nodes < 2 THEN bld
  ELSE mark_all_as_source(mark_as_source(bld, Head(results)), Tail(results))

\* for &arg in args { builder.add_edge_from_value_to_node(arg, node) }
RECURSIVE add_edges_from_values_to_node(_, _, _)
add_edges_from_values_to_node(bld, args, node) ==
  IF args = <<>> \/ bld.num_nodes < 2 THEN bld
  ELSE add_edges_from_values_to_node(
         add_edge_from_value_to_node(bld, Head(args), node), Tail(args), node)

\* for &result in results { builder.add_edge_from_node_to_value(node, result) }
RECURSIVE add_edges_from_node_to_values(_, _, _)
add_edges_from_node_to_values(bld, node, results) ==
  IF results = <<>> \/ bld.num_nodes < 2 THEN bld
  ELSE add_edges_from_node_to_values(
         add_edge_from_node_to_value(bld, node, Head(results)), node, Tail(results))

\* a new sink node for inst with an edge from each of args
sink_with_edges(bld, inst, args) ==
  LET b1 == add_sink_node_for_inst(bld, inst)
  IN add_edges_from_values_to_node(b1, args, b1.num_nodes)

\* the if / else if / else if chain on can_load, can_store, is_branch
classify_load_store_branch(f, store_values_are_sinks, bld, inst) ==
  LET op == f.dfg[inst].op
  IN IF op.can_load
     THEN LET b1 == mark_all_as_source(bld, inst_results(f, inst))
          IN IF ~IsFill(op) THEN sink_with_edges(b1, inst, inst_args(f, inst))
             ELSE b1
     ELSE IF op.can_store
     THEN IF store_values_are_sinks
          THEN sink_with_edges(bld, inst, inst_args(f, inst))
          ELSE sink_with_edges(bld, inst, Tail(inst_args(f, inst)))
     ELSE IF op.is_branch
     THEN sink_with_edges(bld, inst, inst_fixed_args(f, inst))
     ELSE bld

\* the call arm without marking the call's results as sources
classify_call_results_not_sources(f, bld, inst) ==
  IF f.dfg[inst].op.is_call
  THEN sink_with_edges(bld, inst, inst_args(f, inst))
  ELSE bld

\* the separate if on is_call
classify_call(f, bld, inst) ==
  IF f.dfg[inst].op.is_call
  THEN sink_with_edges(mark_all_as_source(bld, inst_results(f, inst)),
                       inst, inst_args(f, inst))
  ELSE bld

\* the body of the classification loop for one instruction
classify_inst(f, store_values_are_sinks, bld, inst) ==
  classify_call(f, classify_load_store_branch(f, store_values_are_sinks, bld, inst), inst)

RECURSIVE classify_insts(_, _, _, _)
classify_insts(f, store_values_are_sinks, bld, insts) ==
  IF insts = <<>> \/ bld.num_nodes < 2 THEN bld
  ELSE classify_insts(f, store_values_are_sinks,
                      classify_inst(f, store_values_are_sinks, bld, Head(insts)),
                      Tail(insts))

\* the edges one use of val adds
\* the Inst arm adding an edge to the first result only
add_use_edges_first_result(f, bld, node, val_use) ==
  IF val_use.kind = "Inst"
  THEN add_edges_from_node_to_values(bld, node, SubSeq(inst_results(f, val_use.id), 1, 1))
  ELSE add_edge_from_node_to_value(bld, node, val_use.id)

add_use_edges(f, bld, node, val_use) ==
  IF val_use.kind = "Inst"
  THEN add_edges_from_node_to_values(bld, node, inst_results(f, val_use.id))
  ELSE add_edge_from_node_to_value(bld, node, val_use.id)

RECURSIVE add_uses_edges(_, _, _, _)
add_uses_edges(f, bld, node, uses) ==
  IF uses = <<>> \/ bld.num_nodes < 2 THEN bld
  ELSE add_uses_edges(f, add_use_edges(f, bld, node, Head(uses)), node, Tail(uses))

\* the data-dependency loop over func.dfg.values(), from value val on
RECURSIVE add_dataflow_edges(_, _, _)
add_dataflow_edges(f, bld, val) ==
  IF val > f.num_values \/ bld.num_nodes < 2 THEN bld
  ELSE add_dataflow_edges(
         f,
         add_uses_edges(f, bld, bld.bladenode_to_node_map[BladeNodeValueDef(val)],
                        uses_of_val(f, val)),
         val + 1)

build_blade_graph_for_func(f, store_values_are_sinks) ==
  add_dataflow_edges(
    f,
    classify_insts(f, store_values_are_sinks, with_nodes_for_func(f), LayoutInsts(f)),
    1)

\* -------------------------------------------------------------- BladeGraph

Nodes(g) == 1..g.num_nodes

\* graph.inedges(node): the tails of the edges into node. The order in which
\* rs_graph lists them is taken to be the order of insertion; which nodes a
\* finished walk yields, and whether a walk diverges, does not depend on it.
inedges(g, node) ==
  LET into == SelectSeq([e \in DOMAIN g.edges |-> e], LAMBDA e : g.edges[e][2] = node)
  IN [k \in DOMAIN into |-> g.edges[into[k]][1]]

\* graph.outedges(node): the edges (indices) leaving node
outedges(g, node) == {e \in DOMAIN g.edges : g.edges[e][1] = node}

is_source_node(g, node) == \E k \in DOMAIN inedges(g, node) : inedges(g, node)[k] = g.source_node

\* the capacity (all weights are 1) of the cut between side and its complement
CutCapacity(g, side) ==
  Cardinality({e \in DOMAIN g.edges : g.edges[e][1] \in side /\ g.edges[e][2] \notin side})

\* PushRelabel solve(source, sink, |_| 1) followed by mincut(): the source
\* side of some minimum cut. Every minimum cut is a possible answer.
AnyMinCutSides(g) ==
  LET sides == {s \cup {g.source_node} :
                  s \in SUBSET (Nodes(g) \ {g.source_node, g.sink_node})}
      caps == {<<s, CutCapacity(g, s)>> : s \in sides}
      least == CHOOSE c \in {p[2] : p \in caps} : \A p \in caps : c <= p[2]
  IN {p[1] : p \in {q \in caps : q[2] = least}}

RECURSIVE ForwardFrom(_, _)
ForwardFrom(g, seen) ==
  LET next == seen \cup {g.edges[e][2] : e \in {d \in DOMAIN g.edges : g.edges[d][1] \in seen}}
  IN IF next = seen THEN seen ELSE ForwardFrom(g, next)

RECURSIVE BackwardFrom(_, _)
BackwardFrom(g, seen) ==
  LET next == seen \cup {g.edges[e][1] : e \in {d \in DOMAIN g.edges : g.edges[d][2] \in seen}}
  IN IF next = seen THEN seen ELSE BackwardFrom(g, next)

\* The source sides that min_cut can tell apart. The edges of a minimum cut
\* all lie on paths from the source to the sink, so a node off every such
\* path can be put on the side where it cuts nothing: with the source if
\* the source reaches it, with the sink otherwise. The minimum cuts that
\* remain (the nodes on source-sink paths are free) have the same edge sets
\* as those of AnyMinCutSides.
MinCutSides(g) ==
  LET forward == ForwardFrom(g, {g.source_node})
      backward == BackwardFrom(g, {g.sink_node})
      free == (forward \cap backward) \ {g.source_node, g.sink_node}
      fixed == (forward \ backward) \cup {g.source_node}
      sides == {s \cup fixed : s \in SUBSET free}
      caps == {<<s, CutCapacity(g, s)>> : s \in sides}
      least == CHOOSE c \in {p[2] : p \in caps} : \A p \in caps : c <= p[2]
  IN {p[1] : p \in {q \in caps : q[2] = least}}

\* min_cut keeping one edge only of each bundle of parallel edges
min_cut_one_per_pair(g, reachable_from_source) ==
  {e \in DOMAIN g.edges :
     /\ g.edges[e][1] \in reachable_from_source
     /\ g.edges[e][2] \notin reachable_from_source
     /\ \A e2 \in DOMAIN g.edges : g.edges[e2] = g.edges[e] => e <= e2}

\* min_cut without the test that the edge leaves reachable_from_source
min_cut_all_outedges(g, reachable_from_source) ==
  UNION {outedges(g, node) : node \in reachable_from_source}

\* min_cut: the edges from a node of reachable_from_source to a node outside it
min_cut(g, reachable_from_source) ==
  {e \in UNION {outedges(g, node) : node \in reachable_from_source} :
     g.edges[e][2] \notin reachable_from_source}

\* ----------------------------------------------------------- ancestors_of

\* The lazy, recursive iterator ancestors_of(node) as the chain of nested
\* iterators that are alive: frame k+1 is the ancestors_of(incoming) that
\* frame k's flatten is currently draining. A frame of a source node is the
\* once(node) iterator; any other frame walks inedges(node) from position
\* next. yielded: the items returned so far; expanded: the nodes
\* ancestors_of was called on; diverged: ancestors_of was entered for a node
\* whose iterator is still being drained, so the descent repeats for ever.
AncFrame(g, node) == [node |-> node, next |-> 1, once |-> is_source_node(g, node)]

ancestors_start(g, node) ==
  [stack |-> <<AncFrame(g, node)>>, yielded |-> <<>>, expanded |-> <<node>>,
   diverged |-> FALSE]

ancestors_finished(w) == w.stack = <<>> \/ w.diverged

StackNodes(w) == {w.stack[k].node : k \in DOMAIN w.stack}

\* one step of next(): the innermost iterator yields (once), descends into
\* its next incoming node, or is exhausted
ancestors_step(g, w) ==
  LET d == Len(w.stack)
      top == w.stack[d]
      ins == inedges(g, top.node)
  IN IF top.once
     THEN [w EXCEPT !.stack = SubSeq(@, 1, d - 1), !.yielded = Append(@, top.node)]
     ELSE IF top.next <= Len(ins)
     THEN [w EXCEPT !.stack = Append([@ EXCEPT ![d].next = top.next + 1],
                                     AncFrame(g, ins[top.next])),
                    !.expanded = Append(@, ins[top.next]),
                    !.diverged = ins[top.next] \in StackNodes(w)]
     ELSE [w EXCEPT !.stack = SubSeq(@, 1, d - 1)]

RECURSIVE ancestors_run(_, _)
ancestors_run(g, w) ==
  IF ancestors_finished(w) THEN w ELSE ancestors_run(g, ancestors_step(g, w))

\* ancestors_of giving up after the first source it finds
ancestors_of_first_only(g, node) ==
  LET w == ancestors_run(g, ancestors_start(g, node))
  IN [w EXCEPT !.yielded = SubSeq(@, 1, 1)]

\* the whole iteration `for node in ancestors_of(node)`
ancestors_of(g, node) == ancestors_run(g, ancestors_start(g, node))

\* ------------------------------------------------------- fence insertion

\* The outcome of a mitigation step: the markers and the function after it,
\* or the message of the panic that ended it.
Done(f, pre, post) == [panic |-> "", func |-> f, pre_lfence |-> pre, post_lfence |-> post]
Panic(msg, f, pre, post) ==
  [panic |-> msg, func |-> f, pre_lfence |-> pre, post_lfence |-> post]

\* the loop testing the opcode of cur_inst itself before it steps back
RECURSIVE fence_scan_from_inst(_, _, _, _, _)
fence_scan_from_inst(f, first, cur_inst, pre, post) ==
  LET opcode == f.dfg[cur_inst].op
  IN IF opcode.is_call \/ opcode.is_branch \/ opcode.is_indirect_branch
     THEN Done(f, pre, post \cup {cur_inst})
     ELSE IF cur_inst = first THEN Done(f, pre \cup {first}, post)
     ELSE fence_scan_from_inst(f, first, prev_inst(f, cur_inst), pre, post)

\* the loop of insert_fence_at_beginning_of_block, at cur_inst
RECURSIVE fence_scan(_, _, _, _, _)
fence_scan(f, first, cur_inst, pre, post) ==
  IF cur_inst = first THEN Done(f, pre \cup {first}, post)
  ELSE IF PosInBlock(f, cur_inst) = 1
  THEN Panic("Ran off the beginning of the EBB", f, pre, post)
  ELSE LET prev == prev_inst(f, cur_inst)
           opcode == f.dfg[prev].op
       IN IF opcode.is_call \/ opcode.is_branch \/ opcode.is_indirect_branch
          THEN Done(f, pre, post \cup {prev})
          ELSE fence_scan(f, first, prev, pre, post)

insert_fence_at_beginning_of_block(f, inst, pre, post) ==
  fence_scan(f, first_inst(f, inst_block(f, inst)), inst, pre, post)

\* insert_fence_before putting a fence instruction into the layout instead
\* of setting pre_lfence
insert_fence_before_as_inst(f, bnode, setting, pre, post) ==
  LET at == IF bnode.kind = "ValueDef"
            THEN LET def == value_def(f, bnode.id)
                 IN IF def.kind = "Result" THEN def.at ELSE first_inst(f, def.at)
            ELSE bnode.id
      b == inst_block(f, at)
      k == PosInBlock(f, at)
      fence == InstData(Opcode("fence", FALSE, FALSE, FALSE, FALSE, FALSE),
                        <<>>, 0, <<>>, 0)
  IN Done([f EXCEPT !.dfg = Append(@, fence),
                    !.layout[b] = SubSeq(@, 1, k - 1) \o <<Len(f.dfg) + 1>>
                                  \o SubSeq(@, k, Len(@))],
          pre, post)

insert_fence_before(f, bnode, setting, pre, post) ==
  IF bnode.kind = "ValueDef"
  THEN LET def == value_def(f, bnode.id)
       IN IF def.kind = "Result"
          THEN IF setting = "Lfence" THEN Done(f, pre \cup {def.at}, post)
               ELSE insert_fence_at_beginning_of_block(f, def.at, pre, post)
          ELSE Done(f, pre \cup {first_inst(f, def.at)}, post)
  ELSE IF setting = "Lfence" THEN Done(f, pre \cup {bnode.id}, post)
       ELSE insert_fence_at_beginning_of_block(f, bnode.id, pre, post)

\* insert_fence_after marking the instruction as insert_fence_before does
insert_fence_after_sets_pre(f, bnode, setting, pre, post) ==
  IF bnode.kind = "ValueDef"
  THEN LET def == value_def(f, bnode.id)
       IN IF def.kind = "Result"
          THEN IF setting = "Lfence" THEN Done(f, pre \cup {def.at}, post)
               ELSE insert_fence_at_beginning_of_block(f, def.at, pre, post)
          ELSE Done(f, pre \cup {first_inst(f, def.at)}, post)
  ELSE Panic("Fencing after a sink instruction", f, pre, post)

insert_fence_after(f, bnode, setting, pre, post) ==
  IF bnode.kind = "ValueDef"
  THEN LET def == value_def(f, bnode.id)
       IN IF def.kind = "Result"
          THEN IF setting = "Lfence" THEN Done(f, pre, post \cup {def.at})
               ELSE insert_fence_at_beginning_of_block(f, def.at, pre, post)
          ELSE Done(f, pre \cup {first_inst(f, def.at)}, post)
  ELSE Panic("Fencing after a sink instruction", f, pre, post)

\* the fence arm fencing after the tail of an edge into the global sink
fence_cut_edge_after_tail(f, g, setting, edge, pre, post) ==
  LET edge_src == g.edges[edge][1]
      edge_snk == g.edges[edge][2]
  IN IF edge_src = g.source_node
     THEN insert_fence_after(f, g.node_to_bladenode_map[edge_snk], setting, pre, post)
     ELSE IF edge_snk = g.sink_node
     THEN insert_fence_after(f, g.node_to_bladenode_map[edge_src], setting, pre, post)
     ELSE insert_fence_before(f, g.node_to_bladenode_map[edge_snk], setting, pre, post)

\* the Lfence | LfencePerBlock arm of do_blade's loop for one cut edge
fence_cut_edge(f, g, setting, edge, pre, post) ==
  LET edge_src == g.edges[edge][1]
      edge_snk == g.edges[edge][2]
  IN IF edge_src = g.source_node
     THEN insert_fence_after(f, g.node_to_bladenode_map[edge_snk], setting, pre, post)
     ELSE IF edge_snk = g.sink_node
     THEN insert_fence_before(f, g.node_to_bladenode_map[edge_src], setting, pre, post)
     ELSE insert_fence_before(f, g.node_to_bladenode_map[edge_snk], setting, pre, post)

\* ------------------------------------------------------------------- SLH

FAKE_SLH_ARRAY_LENGTH_BYTES == 2345

\* cur.ins().<op>(args) for an instruction i = [op, args, imm, cond]: a new
\* instruction with one result, inserted in the layout immediately before
\* instruction at; its result is the new value num_values + 1, of size bytes
ins(f, at, i, bytes) ==
  LET id == Len(f.dfg) + 1
      v == f.num_values + 1
      b == inst_block(f, at)
      k == PosInBlock(f, at)
  IN [f EXCEPT !.dfg = Append(@, [InstData(i.op, i.args, Len(i.args), <<v>>, 0)
                                    EXCEPT !.imm = i.imm, !.cond = i.cond]),
               !.num_values = v,
               !.bytes = @ @@ (v :> bytes),
               !.layout[b] = SubSeq(@, 1, k - 1) \o <<id>> \o SubSeq(@, k, Len(@))]

\* the instructions of is, inserted one after the other; as in the loops over
\* the builder, the function of the step before is inspected (it always has
\* a value) before the next instruction is inserted
RECURSIVE ins_all(_, _, _, _)
ins_all(f, at, is, bytes) ==
  IF is = <<>> \/ f.num_values < 1 THEN f
  ELSE ins_all(ins(f, at, Head(is), bytes), at, Tail(is), bytes)

NewInst(op, args, imm, cond) == [op |-> op, args |-> args, imm |-> imm, cond |-> cond]

\* the masked pointer computation (the k-th instruction inserted defines
\* value num_values + k) and the rewrite of the load's operand
slh_mask_and_rewrite(f, inst, value, pointer_arg_num, pointer_arg, lower, upper) ==
  LET zero == f.num_values + 1
      all_ones == f.num_values + 2
      flags == f.num_values + 3
      mask == f.num_values + 4
      op_size_bytes == f.num_values + 5
      adjusted_upper_bound == f.num_values + 6
      flags2 == f.num_values + 7
      mask2 == f.num_values + 8
      masked_pointer == f.num_values + 9
      seq == << NewInst(op_iconst, <<>>, 0, "none"),
                NewInst(op_iconst, <<>>, -1, "none"),
                NewInst(op_ifcmp, <<pointer_arg, lower>>, 0, "none"),
                NewInst(op_selectif, <<flags, all_ones, zero>>, 0,
                        "UnsignedGreaterThanOrEqual"),
                NewInst(op_iconst, <<>>, f.bytes[value], "none"),
                NewInst(op_isub, <<upper, op_size_bytes>>, 0, "none"),
                NewInst(op_ifcmp, <<pointer_arg, adjusted_upper_bound>>, 0, "none"),
                NewInst(op_selectif, <<flags2, mask, zero>>, 0,
                        "UnsignedLessThanOrEqual"),
                NewInst(op_band, <<pointer_arg, mask2>>, 0, "none") >>
  IN [ins_all(f, inst, seq, f.bytes[pointer_arg])
        EXCEPT !.dfg[inst].args[pointer_arg_num] = masked_pointer]

\* _do_slh_on
do_slh_on_unchecked(f, bnode, pre, post) ==
  IF bnode.kind = "Sink"
  THEN Panic("Can't do SLH to protect a sink, have to protect a source", f, pre, post)
  ELSE
  LET value == bnode.id
      def == value_def(f, value)
  IN IF def.kind = "Param" THEN Panic("SLH on a block parameter", f, pre, post)
     ELSE
     LET inst == def.at
         args == inst_args(f, inst)
         pointer_args == SelectSeq([k \in DOMAIN args |-> k],
                                   LAMBDA k : args[k] \in DOMAIN f.bounds)
     IN IF ~f.dfg[inst].op.can_load
        THEN Panic("SLH on a non-load instruction", f, pre, post)
        ELSE IF Len(pointer_args) > 1
        THEN Panic("SLH: multiple pointer args found to instruction", f, pre, post)
        ELSE IF Len(pointer_args) = 1
        THEN LET num == pointer_args[1]
                 bounds == f.bounds[args[num]]
             IN Done(slh_mask_and_rewrite(f, inst, value, num, args[num],
                                          bounds.lower, bounds.upper), pre, post)
        ELSE IF args = <<>>
        THEN Panic("index out of bounds", f, pre, post)
        ELSE LET pointer_arg == args[1]
                 f1 == ins(f, inst,
                           NewInst(op_iadd_imm, <<pointer_arg>>,
                                   FAKE_SLH_ARRAY_LENGTH_BYTES, "none"),
                           f.bytes[pointer_arg])
             IN Done(slh_mask_and_rewrite(f1, inst, value, 1, pointer_arg,
                                          pointer_arg, f1.num_values), pre, post)

\* The state of the SLH loop: the function, SLHContext.bladenodes_done and
\* the panic message, if any.
SlhState(f, done, panic) == [func |-> f, bladenodes_done |-> done, panic |-> panic]

\* SLHContext::do_slh_on
do_slh_on(st, bnode) ==
  IF bnode \notin st.bladenodes_done
  THEN LET r == do_slh_on_unchecked(st.func, bnode, {}, {})
       IN SlhState(r.func, st.bladenodes_done \cup {bnode}, r.panic)
  ELSE st

\* for node in nodes { slh_ctx.do_slh_on(func, isa, node_to_bladenode_map[&node]) }
RECURSIVE do_slh_on_all(_, _, _)
do_slh_on_all(g, st, nodes) ==
  IF nodes = <<>> \/ st.panic # "" THEN st
  ELSE do_slh_on_all(g, do_slh_on(st, g.node_to_bladenode_map[Head(nodes)]), Tail(nodes))

\* the Slh arm of do_blade's loop for one cut edge
slh_cut_edge(f, g, done, edge) ==
  LET edge_src == g.edges[edge][1]
      edge_snk == g.edges[edge][2]
      st == SlhState(f, done, "")
  IN IF edge_src = g.source_node
     THEN do_slh_on(st, g.node_to_bladenode_map[edge_snk])
     ELSE LET w == ancestors_of(g, edge_src)
              after == do_slh_on_all(g, st, w.yielded)
          IN IF after.panic = "" /\ w.diverged
             THEN [after EXCEPT !.panic = "stack overflow"]
             ELSE after

\* --------------------------------------------------------------- do_blade

VARIABLES
  func,             \* the Function being compiled
  blade_setting,    \* settings::Blade
  store_values_are_sinks,  \* the flag given to build_blade_graph_for_func
  pc,               \* where do_blade is: start, built, loop, done, panic
  blade_graph,      \* build_blade_graph_for_func's result
  cut_edges,        \* min_cut's result
  todo,             \* the cut edges the loop has not reached yet
  pre_lfence,       \* the instructions whose func.pre_lfence is true
  post_lfence,      \* the instructions whose func.post_lfence is true
  bladenodes_done,  \* SLHContext.bladenodes_done
  panic_msg,        \* the message of the panic that ended the pass
  fence_inst        \* the inst given to insert_fence_at_beginning_of_block
                    \* when it is called on its own (0: it was not)

vars == <<func, blade_setting, store_values_are_sinks, pc, blade_graph, cut_edges, todo, pre_lfence,
          post_lfence, bladenodes_done, panic_msg, fence_inst>>

Settings == {"None", "Lfence", "LfencePerBlock", "Slh"}

NoGraph ==
  [num_nodes |-> 0, edges |-> <<>>, source_node |-> 0, sink_node |-> 0,
   node_to_bladenode_map |-> <<>>, bladenode_to_node_map |-> <<>>]

Init ==
  /\ func \in Funcs
  /\ blade_setting \in Settings
  /\ store_values_are_sinks = TRUE
  /\ pc = "start"
  /\ blade_graph = NoGraph
  /\ cut_edges = {}
  /\ todo = {}
  /\ pre_lfence = {}
  /\ post_lfence = {}
  /\ bladenodes_done = {}
  /\ panic_msg = ""
  /\ fence_inst = 0

\* if blade_setting == settings::Blade::None { return; }
ReturnNone ==
  /\ pc = "start"
  /\ blade_setting = "None"
  /\ pc' = "done"
  /\ UNCHANGED <<fence_inst, func, blade_setting, store_values_are_sinks, blade_graph, cut_edges, todo, pre_lfence,
                 post_lfence, bladenodes_done, panic_msg>>

\* let blade_graph = build_blade_graph_for_func(func, cfg, true);
BuildGraph ==
  /\ pc = "start"
  /\ blade_setting # "None"
  /\ blade_graph' = build_blade_graph_for_func(func, store_values_are_sinks)
  /\ pc' = "built"
  /\ UNCHANGED <<fence_inst, func, blade_setting, store_values_are_sinks, cut_edges, todo, pre_lfence, post_lfence,
                 bladenodes_done, panic_msg>>

\* let cut_edges = blade_graph.min_cut();
MinCut ==
  /\ pc = "built"
  /\ \E reachable_from_source \in MinCutSides(blade_graph) :
       /\ cut_edges' = min_cut(blade_graph, reachable_from_source)
       /\ todo' = cut_edges'
  /\ pc' = "loop"
  /\ UNCHANGED <<fence_inst, func, blade_setting, store_values_are_sinks, blade_graph, pre_lfence, post_lfence,
                 bladenodes_done, panic_msg>>

\* one iteration of the loop over cut_edges, fence settings
FenceCutEdge ==
  /\ pc = "loop"
  /\ blade_setting \in {"Lfence", "LfencePerBlock"}
  /\ \E cut_edge \in todo :
       LET r == fence_cut_edge(func, blade_graph, blade_setting, cut_edge,
                               pre_lfence, post_lfence)
       IN /\ func' = r.func
          /\ pre_lfence' = r.pre_lfence
          /\ post_lfence' = r.post_lfence
          /\ panic_msg' = r.panic
          /\ pc' = IF r.panic = "" THEN "loop" ELSE "panic"
          /\ todo' = todo \ {cut_edge}
  /\ UNCHANGED <<fence_inst, blade_setting, store_values_are_sinks, blade_graph, cut_edges,
                 bladenodes_done>>

\* one iteration of the loop over cut_edges, setting Slh
SlhCutEdge ==
  /\ pc = "loop"
  /\ blade_setting = "Slh"
  /\ \E cut_edge \in todo :
       LET r == slh_cut_edge(func, blade_graph, bladenodes_done, cut_edge)
       IN /\ func' = r.func
          /\ bladenodes_done' = r.bladenodes_done
          /\ panic_msg' = r.panic
          /\ pc' = IF r.panic = "" THEN "loop" ELSE "panic"
          /\ todo' = todo \ {cut_edge}
  /\ UNCHANGED <<fence_inst, blade_setting, store_values_are_sinks, blade_graph, cut_edges,
                 pre_lfence, post_lfence>>

\* the loop is over: do_blade returns
Return ==
  /\ pc = "loop"
  /\ todo = {}
  /\ pc' = "done"
  /\ UNCHANGED <<fence_inst, func, blade_setting, store_values_are_sinks, blade_graph, cut_edges, todo, pre_lfence,
                 post_lfence, bladenodes_done, panic_msg>>

Next == ReturnNone \/ BuildGraph \/ MinCut \/ FenceCutEdge \/ SlhCutEdge \/ Return

Spec == Init /\ [][Next]_vars

\* ------------------------------- insert_fence_at_beginning_of_block, alone

\* insert_fence_at_beginning_of_block called on its own for any instruction
\* of the layout of a function without markers
InitFence ==
  /\ func \in Funcs
  /\ blade_setting = "LfencePerBlock"
  /\ store_values_are_sinks = TRUE
  /\ pc = "start"
  /\ blade_graph = NoGraph
  /\ cut_edges = {}
  /\ todo = {}
  /\ pre_lfence = {}
  /\ post_lfence = {}
  /\ bladenodes_done = {}
  /\ panic_msg = ""
  /\ fence_inst = 0

FenceAtBeginning ==
  /\ pc = "start"
  /\ \E inst \in Range(LayoutInsts(func)) :
       LET r == insert_fence_at_beginning_of_block(func, inst, pre_lfence, post_lfence)
       IN /\ fence_inst' = inst
          /\ func' = r.func
          /\ pre_lfence' = r.pre_lfence
          /\ post_lfence' = r.post_lfence
          /\ panic_msg' = r.panic
          /\ pc' = IF r.panic = "" THEN "fenced" ELSE "panic"
  /\ UNCHANGED <<blade_setting, store_values_are_sinks, blade_graph, cut_edges, todo,
                 bladenodes_done>>

NextFence == FenceAtBeginning

SpecFence == InitFence /\ [][NextFence]_vars

\* ------------------------------------------ _do_slh_on, alone, on numbers

\* two to the power n
RECURSIVE Pow2(_)
Pow2(n) == IF n = 0 THEN 1 ELSE 2 * Pow2(n - 1)

\* pointers are PointerBits wide
Modulus == Pow2(PointerBits)

RECURSIVE BitAnd(_, _)
BitAnd(a, b) ==
  IF a = 0 \/ b = 0 THEN 0
  ELSE (a % 2) * (b % 2) + 2 * BitAnd(a \div 2, b \div 2)

\* The value that v has when the function runs: integer arithmetic modulo
\* 2^PointerBits; ifcmp gives the pair of its operands as flags, selectif
\* chooses by its condition code on the flags.
RECURSIVE EvalValue(_, _)
EvalValue(f, v) ==
  LET i == f.dfg[value_def(f, v).at]
      name == i.op.name
  IN CASE name = "iconst" -> i.imm % Modulus
       [] name = "iadd_imm" -> (EvalValue(f, i.args[1]) + i.imm) % Modulus
       [] name = "isub" -> (EvalValue(f, i.args[1]) - EvalValue(f, i.args[2])) % Modulus
       [] name = "ifcmp" -> <<EvalValue(f, i.args[1]), EvalValue(f, i.args[2])>>
       [] name = "selectif" ->
            LET flags == EvalValue(f, i.args[1])
                holds == IF i.cond = "UnsignedGreaterThanOrEqual"
                         THEN flags[1] >= flags[2]
                         ELSE flags[1] <= flags[2]
            IN IF holds THEN EvalValue(f, i.args[2]) ELSE EvalValue(f, i.args[3])
       [] name = "band" -> BitAnd(EvalValue(f, i.args[1]), EvalValue(f, i.args[2]))

\* the result types' sizes in bytes
OperandSizes == {1, 2, 4, 8}

\*   v1 = iconst pointer; v2 = iconst lower; v3 = iconst upper;
\*   v4 = load v1; return
\* where v1 has the bounds (v2, v3) if bounded, and none otherwise
MaskFunc(pointer, lower, upper, size, bounded) ==
  [layout |-> << <<1, 2, 3, 4, 5>> >>,
   params |-> << <<>> >>,
   dfg |-> << [InstData(op_iconst, <<>>, 0, <<1>>, 0) EXCEPT !.imm = pointer],
              [InstData(op_iconst, <<>>, 0, <<2>>, 0) EXCEPT !.imm = lower],
              [InstData(op_iconst, <<>>, 0, <<3>>, 0) EXCEPT !.imm = upper],
              InstData(op_load, <<1>>, 1, <<4>>, 0),
              InstData(op_return, <<>>, 0, <<>>, 0) >>,
   num_values |-> 4,
   bounds |-> IF bounded
              THEN 1 :> [lower |-> 2, upper |-> 3, directly_annotated |-> TRUE]
              ELSE NoBounds,
   bytes |-> [v \in 1..4 |-> IF v = 4 THEN size ELSE 8]]

\* every pointer, lower and upper of PointerBits bits and every operand
\* size, with bounds on the pointer; every pointer and size without
InitMask ==
  /\ \E pointer \in 0..(Modulus - 1), size \in OperandSizes :
       \/ \E lower \in 0..(Modulus - 1), upper \in 0..(Modulus - 1) :
            func = MaskFunc(pointer, lower, upper, size, TRUE)
       \/ func = MaskFunc(pointer, 0, 0, size, FALSE)
  /\ blade_setting = "Slh"
  /\ store_values_are_sinks = TRUE
  /\ pc = "start"
  /\ blade_graph = NoGraph
  /\ cut_edges = {}
  /\ todo = {}
  /\ pre_lfence = {}
  /\ post_lfence = {}
  /\ bladenodes_done = {}
  /\ panic_msg = ""
  /\ fence_inst = 0

\* slh_ctx.do_slh_on(func, isa, ValueDef(v4))
MaskPointer ==
  /\ pc = "start"
  /\ LET r == do_slh_on(SlhState(func, bladenodes_done, ""), BladeNodeValueDef(4))
     IN /\ func' = r.func
        /\ bladenodes_done' = r.bladenodes_done
        /\ panic_msg' = r.panic
        /\ pc' = IF r.panic = "" THEN "masked" ELSE "panic"
  /\ UNCHANGED <<fence_inst, blade_setting, store_values_are_sinks, blade_graph,
                 cut_edges, todo, pre_lfence, post_lfence>>

NextMask == MaskPointer

SpecMask == InitMask /\ [][NextMask]_vars

\* ------------------------------------- build_blade_graph_for_func, alone

\* build_blade_graph_for_func called on its own, with either value of
\* store_values_are_sinks (do_blade always passes true)
InitBuild ==
  /\ func \in Funcs
  /\ blade_setting = "None"
  /\ store_values_are_sinks \in BOOLEAN
  /\ pc = "start"
  /\ blade_graph = NoGraph
  /\ cut_edges = {}
  /\ todo = {}
  /\ pre_lfence = {}
  /\ post_lfence = {}
  /\ bladenodes_done = {}
  /\ panic_msg = ""
  /\ fence_inst = 0

BuildOnly ==
  /\ pc = "start"
  /\ blade_graph' = build_blade_graph_for_func(func, store_values_are_sinks)
  /\ pc' = "built"
  /\ UNCHANGED <<fence_inst, func, blade_setting, store_values_are_sinks, cut_edges, todo,
                 pre_lfence, post_lfence, bladenodes_done, panic_msg>>

NextBuild == BuildOnly

SpecBuild == InitBuild /\ [][NextBuild]_vars

\* ------------------------------------------------------------- properties

\* the nodes that a directed path from a node of seen reaches without using
\* an edge of removed
RECURSIVE ReachFrom(_, _, _)
ReachFrom(g, removed, seen) ==
  LET next == seen \cup {g.edges[e][2] :
                           e \in {e \in DOMAIN g.edges \ removed : g.edges[e][1] \in seen}}
  IN IF next = seen THEN seen ELSE ReachFrom(g, removed, next)

\* some node lies on a directed cycle
HasCycle(g) ==
  \E e \in DOMAIN g.edges : g.edges[e][1] \in ReachFrom(g, {}, {g.edges[e][2]})

HasParallelEdges(g) ==
  \E e1, e2 \in DOMAIN g.edges : e1 # e2 /\ g.edges[e1] = g.edges[e2]

CutComputed == pc \in {"loop", "done", "panic"} /\ blade_setting # "None"

\* C1: once min_cut has returned, no directed path leads from the global
\* source to the global sink in the network without the returned cut edges.
C1_MinCutSeparates ==
  CutComputed =>
    blade_graph.sink_node \notin
      ReachFrom(blade_graph, cut_edges, {blade_graph.source_node})

\* C1 witness: a cut was returned for a network with a cycle and parallel
\* edges in which the sink is reachable from the source.
C1_Witness ==
  /\ CutComputed
  /\ blade_graph.sink_node \in ReachFrom(blade_graph, {}, {blade_graph.source_node})
  /\ cut_edges # {}
  /\ HasCycle(blade_graph)
  /\ HasParallelEdges(blade_graph)

\* the nodes that a directed path from a node of seen reaches without
\* entering a node of blocked
RECURSIVE ReachAvoiding(_, _, _)
ReachAvoiding(g, blocked, seen) ==
  LET next == seen \cup ({g.edges[e][2] : e \in {e \in DOMAIN g.edges : g.edges[e][1] \in seen}}
                         \ blocked)
  IN IF next = seen THEN seen ELSE ReachAvoiding(g, blocked, next)

\* the nodes handed to do_slh_on so far
HardenedNodes ==
  {n \in DOMAIN blade_graph.node_to_bladenode_map :
     blade_graph.node_to_bladenode_map[n] \in bladenodes_done}

\* C2: under Slh, when do_blade has processed every cut edge, every directed
\* path from the global source to the global sink passes through a node that
\* was handed to do_slh_on.
C2_SlhCutsEveryPath ==
  (blade_setting = "Slh" /\ pc = "done") =>
    blade_graph.sink_node \notin
      ReachAvoiding(blade_graph, HardenedNodes, {blade_graph.source_node})

\* C2 witness: Slh finished on a network with a source-to-sink path whose
\* cut held an edge that does not leave the global source, so that the
\* hardened nodes came from ancestors_of.
C2_Witness ==
  /\ blade_setting = "Slh"
  /\ pc = "done"
  /\ blade_graph.sink_node \in ReachFrom(blade_graph, {}, {blade_graph.source_node})
  /\ \E e \in cut_edges : blade_graph.edges[e][1] # blade_graph.source_node
  /\ Cardinality(bladenodes_done) >= 2

Built == pc # "start" /\ blade_graph # NoGraph

NodeOfValue(v) == blade_graph.bladenode_to_node_map[BladeNodeValueDef(v)]

\* the graph nodes that node_to_bladenode_map maps to Sink(i)
SinkNodesOf(i) ==
  {n \in DOMAIN blade_graph.node_to_bladenode_map :
     blade_graph.node_to_bladenode_map[n] = BladeNodeSink(i)}

SinkNodes ==
  {n \in DOMAIN blade_graph.node_to_bladenode_map :
     blade_graph.node_to_bladenode_map[n].kind = "Sink"}

NeedsSink(op) == (op.can_load /\ ~IsFill(op)) \/ op.can_store \/ op.is_branch \/ op.is_call

MapsMutuallyInverse ==
  /\ \A n \in DOMAIN blade_graph.node_to_bladenode_map :
       /\ blade_graph.node_to_bladenode_map[n] \in DOMAIN blade_graph.bladenode_to_node_map
       /\ blade_graph.bladenode_to_node_map[blade_graph.node_to_bladenode_map[n]] = n
  /\ \A b \in DOMAIN blade_graph.bladenode_to_node_map :
       /\ blade_graph.bladenode_to_node_map[b] \in DOMAIN blade_graph.node_to_bladenode_map
       /\ blade_graph.node_to_bladenode_map[blade_graph.bladenode_to_node_map[b]] = b

ExpectedSinkArgs(i) ==
  LET op == func.dfg[i].op
  IN IF (op.can_load /\ ~IsFill(op)) \/ op.is_call THEN Range(inst_args(func, i))
     ELSE IF op.can_store
     THEN IF store_values_are_sinks THEN Range(inst_args(func, i))
          ELSE Range(Tail(inst_args(func, i)))
     ELSE {func.dfg[i].args[k] : k \in 1..func.dfg[i].nfixed}

\* C9: the nodes with an edge into a Sink node of instruction i are exactly
\* the value nodes of: all arguments of i for a non-fill load and for a
\* call; all arguments, or all but argument 0 when store_values_are_sinks is
\* false, for a store; the fixed arguments for a branch.
C9_SinkInEdges ==
  Built =>
    \A n \in SinkNodes :
      Range(inedges(blade_graph, n)) =
        {NodeOfValue(v) : v \in ExpectedSinkArgs(blade_graph.node_to_bladenode_map[n].id)}

\* C9 witness: a store of two different values built with
\* store_values_are_sinks false, whose Sink node has the address as its only
\* predecessor.
C9_Witness ==
  /\ Built
  /\ ~store_values_are_sinks
  /\ \E n \in SinkNodes :
       LET i == blade_graph.node_to_bladenode_map[n].id
       IN /\ func.dfg[i].op.can_store
          /\ Len(inst_args(func, i)) = 2
          /\ inst_args(func, i)[1] # inst_args(func, i)[2]
          /\ Range(inedges(blade_graph, n)) = {NodeOfValue(inst_args(func, i)[2])}

\* the results of the load-capable instructions and of the calls in the layout
SourceValues ==
  UNION {Range(inst_results(func, i)) :
           i \in {j \in Range(LayoutInsts(func)) :
                    func.dfg[j].op.can_load \/ func.dfg[j].op.is_call}}

\* C10: the nodes with an edge from the global source are exactly the
\* ValueDef nodes of the results of the load-capable instructions (fills
\* included) and of the calls; no block parameter, no other result and no
\* Sink node is among them.
C10_SourceNodes ==
  Built =>
    {blade_graph.edges[e][2] : e \in outedges(blade_graph, blade_graph.source_node)}
      = {NodeOfValue(v) : v \in SourceValues}

\* C10 witness: a built network of a function with a fill and a call whose
\* results are sources, next to a block parameter that is none.
C10_Witness ==
  /\ Built
  /\ \E i, j \in Range(LayoutInsts(func)) :
        /\ IsFill(func.dfg[i].op)
        /\ func.dfg[j].op.is_call /\ ~func.dfg[j].op.can_load
        /\ inst_results(func, i) # <<>>
        /\ inst_results(func, j) # <<>>
        /\ is_source_node(blade_graph, NodeOfValue(inst_results(func, i)[1]))
        /\ is_source_node(blade_graph, NodeOfValue(inst_results(func, j)[1]))
  /\ ~is_source_node(blade_graph, NodeOfValue(1))

\* how many maskings (band instructions) lie between value v and the value
\* it was computed from
RECURSIVE MaskDepth(_, _)
MaskDepth(f, v) ==
  LET def == value_def(f, v)
  IN IF def.kind = "Result" /\ f.dfg[def.at].op.name = "band"
     THEN 1 + MaskDepth(f, f.dfg[def.at].args[1])
     ELSE 0

WalkedCutEdges ==
  {e \in cut_edges : blade_graph.edges[e][1] # blade_graph.source_node}

\* C5 (as claimed): the backward walk from the tail of every cut edge comes
\* to an end, on networks with cycles too: it never enters again a node
\* that it is still expanding.
C5_WalkTerminates ==
  (CutComputed /\ blade_setting = "Slh") =>
    \A e \in WalkedCutEdges :
      ~ancestors_of(blade_graph, blade_graph.edges[e][1]).diverged

\* the nodes from which n is reached backward through non-source nodes
RECURSIVE BackwardClosure(_, _)
BackwardClosure(g, seen) ==
  LET more == UNION {Range(inedges(g, m)) : m \in {x \in seen : ~is_source_node(g, x)}}
  IN IF more \subseteq seen THEN seen ELSE BackwardClosure(g, seen \cup more)

AncestorsExpected(g, n) ==
  IF is_source_node(g, n) THEN {n}
  ELSE {s \in BackwardClosure(g, {n}) : is_source_node(g, s)}

AncestorsAsClaimed(g, n) ==
  LET w == ancestors_of(g, n)
  IN /\ ~w.diverged
     /\ Range(w.yielded) = AncestorsExpected(g, n)
     /\ \A y \in Range(w.yielded) :
          /\ y \notin {g.source_node, g.sink_node}
          /\ g.node_to_bladenode_map[y].kind = "ValueDef"

\* C6 (as claimed): for every node n of the built network ancestors_of(n)
\* yields exactly {n} when n has an edge from the global source, and
\* otherwise exactly the source nodes that reach n through non-source
\* nodes; never the global source, the global sink or a Sink node.
C6_AncestorsExact ==
  Built => \A n \in Nodes(blade_graph) : AncestorsAsClaimed(blade_graph, n)

\* the same for the walks that come to an end
AncestorsExactWhenFinished ==
  Built =>
    \A n \in Nodes(blade_graph) :
      ~ancestors_of(blade_graph, n).diverged => AncestorsAsClaimed(blade_graph, n)

\* residual arcs of a unit-capacity flow F (a set of edge indices)
ResidualArcs(g, F) ==
  {<<e, "fwd">> : e \in DOMAIN g.edges \ F} \cup {<<e, "bwd">> : e \in F}

ArcTail(g, a) == IF a[2] = "fwd" THEN g.edges[a[1]][1] ELSE g.edges[a[1]][2]
ArcHead(g, a) == IF a[2] = "fwd" THEN g.edges[a[1]][2] ELSE g.edges[a[1]][1]

\* an augmenting path from the source to the sink, <<>> when there is none;
\* paths maps each node reached so far to the arcs that lead to it
RECURSIVE AugmentingPath(_, _, _)
AugmentingPath(g, F, paths) ==
  IF g.sink_node \in DOMAIN paths THEN paths[g.sink_node]
  ELSE LET cand == {a \in ResidualArcs(g, F) :
                      ArcTail(g, a) \in DOMAIN paths /\ ArcHead(g, a) \notin DOMAIN paths}
       IN IF cand = {} THEN <<>>
          ELSE LET a == CHOOSE a \in cand : TRUE
               IN AugmentingPath(g, F,
                    paths @@ (ArcHead(g, a) :> Append(paths[ArcTail(g, a)], a)))

RECURSIVE MaxFlowFrom(_, _)
MaxFlowFrom(g, F) ==
  LET path == AugmentingPath(g, F, g.source_node :> <<>>)
      fwd == {a[1] : a \in {x \in Range(path) : x[2] = "fwd"}}
      bwd == {a[1] : a \in {x \in Range(path) : x[2] = "bwd"}}
  IN IF path = <<>> THEN 0 ELSE 1 + MaxFlowFrom(g, (F \cup fwd) \ bwd)

\* the max-flow value between the global source and the global sink, every
\* edge of capacity 1
MaxFlow(g) == MaxFlowFrom(g, {})

FenceMarkers == Cardinality(pre_lfence) + Cardinality(post_lfence)

\* addr; x = load addr; y = iadd x, 1; brif y
ScenarioA == StraightFunc(ChainBody(op_load, 1, op_brnz, 1), FALSE)

\* C7: under Lfence the number of cut edges is the max-flow value k between
\* the global source and the global sink; when do_blade returns it has set
\* at least one and at most k fence markers if k >= 1, and exactly one for
\* the program of Scenario A, whichever minimum cut was chosen.
C7_LfenceCutIsMaxFlow ==
  (blade_setting = "Lfence" /\ pc \in {"loop", "done"}) =>
    LET k == MaxFlow(blade_graph)
    IN /\ Cardinality(cut_edges) = k
       /\ (pc = "done" /\ k >= 1) => (FenceMarkers >= 1 /\ FenceMarkers <= k)
       /\ (pc = "done" /\ func = ScenarioA) => FenceMarkers = 1

\* C7 witness: do_blade has returned under Lfence from a network of
\* max-flow value at least 2, with two cut edges fenced
C7_Witness ==
  /\ blade_setting = "Lfence"
  /\ pc = "done"
  /\ MaxFlow(blade_graph) >= 2
  /\ Cardinality(cut_edges) = MaxFlow(blade_graph)
  /\ FenceMarkers >= 1
  /\ FenceMarkers <= MaxFlow(blade_graph)

\* Scenario A has been run under Lfence and carries one marker
ScenarioAFenced ==
  blade_setting = "Lfence" /\ pc = "done" /\ func = ScenarioA /\ FenceMarkers = 1

\* C8: every step of do_blade leaves the function, pre_lfence and
\* post_lfence alone under None, leaves pre_lfence and post_lfence alone
\* under Slh, and leaves the function (operands and instructions) alone
\* under Lfence and LfencePerBlock.
C8_Frame ==
  [][ /\ blade_setting = "None" => UNCHANGED <<func, pre_lfence, post_lfence>>
      /\ blade_setting = "Slh" => UNCHANGED <<pre_lfence, post_lfence>>
      /\ blade_setting \in {"Lfence", "LfencePerBlock"} => UNCHANGED func ]_vars

\* C8 witness: do_blade has returned under LfencePerBlock with a marker set
\* on an instruction of the function it was given
C8_Witness ==
  /\ blade_setting = "LfencePerBlock"
  /\ pc = "done"
  /\ pre_lfence \cup post_lfence # {}
  /\ func \in Funcs

GraphBuilt == blade_graph # NoGraph

KindOfNode(n) == blade_graph.node_to_bladenode_map[n].kind

\* C11: in the built network every edge leaving the global source ends at a
\* ValueDef node and every edge entering the global sink starts at a Sink
\* node, and under Lfence and LfencePerBlock do_blade never ends in the
\* "Fencing after a sink instruction" abort.
C11_NoFenceAfterSink ==
  /\ GraphBuilt =>
       \A e \in DOMAIN blade_graph.edges :
         /\ blade_graph.edges[e][1] = blade_graph.source_node =>
              /\ blade_graph.edges[e][2] \in DOMAIN blade_graph.node_to_bladenode_map
              /\ KindOfNode(blade_graph.edges[e][2]) = "ValueDef"
         /\ blade_graph.edges[e][2] = blade_graph.sink_node =>
              /\ blade_graph.edges[e][1] \in DOMAIN blade_graph.node_to_bladenode_map
              /\ KindOfNode(blade_graph.edges[e][1]) = "Sink"
  /\ blade_setting \in {"Lfence", "LfencePerBlock"} =>
       panic_msg # "Fencing after a sink instruction"

\* C11 witness: do_blade has returned under LfencePerBlock after calling
\* insert_fence_after for a cut edge that leaves the global source, in a
\* network that has edges into the global sink as well
C11_Witness ==
  /\ blade_setting = "LfencePerBlock"
  /\ pc = "done"
  /\ \E e \in cut_edges : blade_graph.edges[e][1] = blade_graph.source_node
  /\ \E e \in DOMAIN blade_graph.edges : blade_graph.edges[e][2] = blade_graph.sink_node

\* the instruction a fence for value v is placed at: the instruction that
\* defines v, or the first instruction of v's block for a block parameter
DefiningInst(v) ==
  IF \E b \in Blocks(func) : v \in Range(func.params[b])
  THEN func.layout[CHOOSE b \in Blocks(func) : v \in Range(func.params[b])][1]
  ELSE CHOOSE i \in DOMAIN func.dfg : v \in Range(func.dfg[i].results)

IsBlockParam(v) == \E b \in Blocks(func) : v \in Range(func.params[b])

\* the markers the claim gives for cut edge e under Lfence, as <<pre, post>>
LfenceMarkersFor(e) ==
  LET a == blade_graph.edges[e][1]
      b == blade_graph.edges[e][2]
      bn == blade_graph.node_to_bladenode_map
  IN IF a = blade_graph.source_node
     THEN IF IsBlockParam(bn[b].id)
          THEN <<{DefiningInst(bn[b].id)}, {}>>
          ELSE <<{}, {DefiningInst(bn[b].id)}>>
     ELSE IF b = blade_graph.sink_node
     THEN <<{bn[a].id}, {}>>
     ELSE IF bn[b].kind = "Sink"
     THEN <<{bn[b].id}, {}>>
     ELSE <<{DefiningInst(bn[b].id)}, {}>>

\* C12: under Lfence the step of do_blade for a cut edge (a, b) sets exactly
\* the marker the edge calls for and no other (post_lfence on the definition
\* of b for an edge from the global source, pre_lfence on the Sink
\* instruction a for an edge into the global sink, pre_lfence at b for an
\* interior edge, the first instruction of the block for a block
\* parameter), and no step ever clears a marker.
C12_LfenceMarkers ==
  [][ /\ pre_lfence \subseteq pre_lfence'
      /\ post_lfence \subseteq post_lfence'
      /\ (blade_setting = "Lfence" /\ pc = "loop" /\ todo' # todo) =>
           \E e \in todo :
             /\ todo' = todo \ {e}
             /\ pre_lfence' = pre_lfence \cup LfenceMarkersFor(e)[1]
             /\ post_lfence' = post_lfence \cup LfenceMarkersFor(e)[2]
             /\ Cardinality(LfenceMarkersFor(e)[1] \cup LfenceMarkersFor(e)[2]) = 1
             /\ pc' = "loop" ]_vars

\* C12 witness: do_blade has returned under Lfence after fencing a cut edge
\* from the global source (post_lfence) and an interior cut edge whose head
\* is a block parameter (pre_lfence on the first instruction of its block)
C12_Witness ==
  /\ blade_setting = "Lfence"
  /\ pc = "done"
  /\ post_lfence # {}
  /\ \E e \in cut_edges :
       /\ blade_graph.edges[e][1] # blade_graph.source_node
       /\ blade_graph.edges[e][2] # blade_graph.sink_node
       /\ KindOfNode(blade_graph.edges[e][2]) = "ValueDef"
       /\ IsBlockParam(blade_graph.node_to_bladenode_map[blade_graph.edges[e][2]].id)
       /\ LfenceMarkersFor(e)[1] \subseteq pre_lfence

\* the three aborts of _do_slh_on about the kind of node it is given
SlhNodeAborts ==
  { "Can't do SLH to protect a sink, have to protect a source",
    "SLH on a block parameter",
    "SLH on a non-load instruction" }

\* C16 (as claimed): under Slh, for every function, functions with calls
\* included, do_blade never ends in one of the aborts "Can't do SLH to
\* protect a sink", "SLH on a block parameter", "SLH on a non-load
\* instruction": every node handed to do_slh_on is the ValueDef of a result
\* of a load-capable instruction.
C16_SlhOnlyOnLoads ==
  blade_setting = "Slh" =>
    /\ panic_msg \notin SlhNodeAborts
    /\ \A bnode \in bladenodes_done :
         /\ bnode.kind = "ValueDef"
         /\ ~IsBlockParam(bnode.id)
         /\ func.dfg[DefiningInst(bnode.id)].op.can_load

IsFenceStop(op) == op.is_call \/ op.is_branch \/ op.is_indirect_branch

\* the positions strictly before inst in its block that hold a call, a
\* branch or an indirect branch
StopsBefore(inst) ==
  LET b == inst_block(func, inst)
  IN {j \in 1..(PosInBlock(func, inst) - 1) : IsFenceStop(func.dfg[func.layout[b][j]].op)}

\* C13: for every instruction of the layout,
\* insert_fence_at_beginning_of_block comes to an end without the "Ran off
\* the beginning of the EBB" abort and sets exactly one marker: post_lfence
\* on the nearest call, branch or indirect branch strictly before the
\* instruction in its block, or pre_lfence on the first instruction of the
\* block when there is none.
C13_FenceAtBlockStart ==
  pc \in {"fenced", "panic"} =>
    /\ pc = "fenced"
    /\ panic_msg = ""
    /\ LET b == inst_block(func, fence_inst)
           stops == StopsBefore(fence_inst)
       IN IF stops = {}
          THEN pre_lfence = {func.layout[b][1]} /\ post_lfence = {}
          ELSE /\ pre_lfence = {}
               /\ post_lfence =
                    {func.layout[b][CHOOSE j \in stops : \A k \in stops : k <= j]}

\* C13 witness: the fence for an instruction that has a call or a branch
\* and then another instruction before it in its block: post_lfence on the
\* call or branch
C13_Witness ==
  /\ pc = "fenced"
  /\ PosInBlock(func, fence_inst) >= 3
  /\ StopsBefore(fence_inst) # {}
  /\ PosInBlock(func, fence_inst) - 1 \notin StopsBefore(fence_inst)
  /\ pre_lfence = {}
  /\ Cardinality(post_lfence) = 1

\* under LfencePerBlock every marker do_blade sets is a pre_lfence on the
\* first instruction of a block or a post_lfence on a call or branch
PerBlockMarkerPlaces ==
  blade_setting = "LfencePerBlock" =>
    /\ \A i \in pre_lfence : PosInBlock(func, i) = 1
    /\ \A i \in post_lfence : IsFenceStop(func.dfg[i].op)

\* the edges of the network from the ValueDef node of x to the ValueDef node of y
ValueEdges(x, y) ==
  {e \in DOMAIN blade_graph.edges :
     /\ blade_graph.edges[e][1] \in DOMAIN blade_graph.node_to_bladenode_map
     /\ blade_graph.edges[e][2] \in DOMAIN blade_graph.node_to_bladenode_map
     /\ blade_graph.node_to_bladenode_map[blade_graph.edges[e][1]] = BladeNodeValueDef(x)
     /\ blade_graph.node_to_bladenode_map[blade_graph.edges[e][2]] = BladeNodeValueDef(y)}

\* the occurrences of x as an argument of an instruction of the layout,
\* paired with each result y of that instruction
ArgResultPairs(x, y) ==
  {t \in UNION {{<<i, k, j>> : k \in DOMAIN func.dfg[i].args, j \in DOMAIN func.dfg[i].results}
                  : i \in Range(LayoutInsts(func))} :
     func.dfg[t[1]].args[t[2]] = x /\ func.dfg[t[1]].results[t[3]] = y}

\* the predecessor edges (branch i into its destination block) whose k-th
\* variable argument is x and whose k-th block parameter is y
ForwardPairs(x, y) ==
  {t \in UNION {{<<i, k>> : k \in 1..(Len(func.dfg[i].args) - func.dfg[i].nfixed)}
                  : i \in {j \in Range(LayoutInsts(func)) : func.dfg[j].dest # 0}} :
     /\ func.dfg[t[1]].args[func.dfg[t[1]].nfixed + t[2]] = x
     /\ t[2] \in DOMAIN func.params[func.dfg[t[1]].dest]
     /\ func.params[func.dfg[t[1]].dest][t[2]] = y}

\* the values that depend on a value of vs through instruction results and
\* block-parameter forwardings
RECURSIVE DependentValues(_)
DependentValues(vs) ==
  LET more == {y \in 1..func.num_values :
                 \E x \in vs : ArgResultPairs(x, y) # {} \/ ForwardPairs(x, y) # {}}
  IN IF more \subseteq vs THEN vs ELSE DependentValues(vs \cup more)

\* a result of a load or call reaches an argument that is a sink
SourceReachesSinkArg ==
  \E i \in Range(LayoutInsts(func)) :
    /\ NeedsSink(func.dfg[i].op)
    /\ ExpectedSinkArgs(i) \cap DependentValues(SourceValues) # {}

\* C14: the edges between two ValueDef nodes of the built network are
\* exactly one edge v -> r for each occurrence of v as an argument of an
\* instruction of the layout and each result r of it, and one edge a -> p
\* for each predecessor edge into a block whose k-th variable argument is a
\* and whose k-th parameter is p; and whenever a source value reaches a sink
\* argument through such steps, the network has a path from the global
\* source to the global sink.
C14_DataflowEdges ==
  Built =>
    /\ \A x, y \in 1..func.num_values :
         Cardinality(ValueEdges(x, y))
           = Cardinality(ArgResultPairs(x, y)) + Cardinality(ForwardPairs(x, y))
    /\ SourceReachesSinkArg =>
         blade_graph.sink_node \in ReachFrom(blade_graph, {}, {blade_graph.source_node})

\* C14 witness: the network of a loop in which a load result is forwarded
\* to a block parameter that is used twice by one instruction (two parallel
\* edges) and reaches a branch
C14_Witness ==
  /\ Built
  /\ \E x, y \in 1..func.num_values :
       /\ Cardinality(ArgResultPairs(x, y)) = 2
       /\ Cardinality(ValueEdges(x, y)) = 2
  /\ \E x, y \in 1..func.num_values :
       /\ ForwardPairs(x, y) # {}
       /\ x \in SourceValues
       /\ ValueEdges(x, y) # {}
  /\ SourceReachesSinkArg
  /\ blade_graph.sink_node \in ReachFrom(blade_graph, {}, {blade_graph.source_node})

\* the numbers of a masked load: its pointer, the bounds _do_slh_on used
\* (the fabricated ones when the pointer has none), the operand size and the
\* operand that the load has now
MaskedPointer == EvalValue(func, 1)
MaskedLower == IF 1 \in DOMAIN func.bounds THEN EvalValue(func, 2) ELSE MaskedPointer
MaskedUpper ==
  IF 1 \in DOMAIN func.bounds THEN EvalValue(func, 3)
  ELSE (MaskedPointer + FAKE_SLH_ARRAY_LENGTH_BYTES) % Modulus
MaskedSize == func.bytes[4]
MaskedOperand == EvalValue(func, func.dfg[4].args[1])

AccessInBounds ==
  MaskedLower <= MaskedPointer /\ MaskedPointer + MaskedSize <= MaskedUpper

\* C15 (as claimed): for all pointer, lower, upper and operand size the
\* operand that _do_slh_on substitutes into the load equals pointer when
\* [pointer, pointer + size) lies inside [lower, upper) and 0 for every
\* other pointer, also when upper - size or the fabricated bound
\* pointer + 2345 wraps around.
C15_MaskExact ==
  pc \in {"masked", "panic"} =>
    /\ pc = "masked"
    /\ MaskedOperand = IF AccessInBounds THEN MaskedPointer ELSE 0

\* the same where upper - size does not wrap around
MaskExactWithoutWrap ==
  (pc = "masked" /\ MaskedUpper >= MaskedSize) =>
    MaskedOperand = IF AccessInBounds THEN MaskedPointer ELSE 0

\* the cuts that min_cut returns for the sides of MinCutSides are those it
\* returns for the source sides of all minimum cuts
MinCutSidesComplete ==
  Built =>
    {min_cut(blade_graph, s) : s \in MinCutSides(blade_graph)}
      = {min_cut(blade_graph, s) : s \in AnyMinCutSides(blade_graph)}

====
